---------------------------- MODULE Spec2Model ----------------------------
(***************************************************************************)
(* The ZAssistant widget of src/src/index.tsx as a state machine.          *)
(*                                                                         *)
(* The state is the component's seven useState cells, the configuration    *)
(* it was constructed with, and the timers it has scheduled and that have  *)
(* not fired yet.  One action per event handler, effect or timer callback. *)
(* An action holds the whole React update: the handler's state updates,    *)
(* the re-render, and the effects whose dependencies changed.              *)
(*                                                                         *)
(* Text is a sequence of tokens: typed input is a sequence of one-         *)
(* character strings, a configured literal is a one-token sequence, the    *)
(* empty string is << >>, and concatenation is \o.                         *)
(***************************************************************************)
EXTENDS Integers, Sequences, FiniteSets, TLC

VARIABLES
    config,         \* the config prop (a record holding the fields supplied)
    phase,          \* "constructed" | "mounted" | "unmounted" | "crashed"
    currentTip,     \* useState(0)
    isAnimating,    \* useState(false)
    showBubble,     \* useState(true)
    chatMode,       \* useState(false)
    chatMessages,   \* useState([])
    chatInput,      \* useState('')
    isTyping,       \* useState(false)
    intervals,      \* number of active 8 s setInterval timers
    advanceTimers,  \* number of pending 400 ms timeouts (advance the tip)
    fadeTimers,     \* number of pending 100 ms timeouts (end the fade)
    replyTimers,    \* ids of the pending simulated-reply timeouts
    now,            \* logical clock read by new Date()
    event,          \* history: the last handler or callback that ran
    sends,          \* history: number of successful sends
    cycles,         \* history: number of completed tip-rotation cycles
    chatOpened      \* history: the chat view has been opened at least once

vars == <<config, phase, currentTip, isAnimating, showBubble, chatMode,
          chatMessages, chatInput, isTyping, intervals, advanceTimers,
          fadeTimers, replyTimers, now, event, sends, cycles, chatOpened>>

----------------------------------------------------------------------------
(* Bounds of the model *)

MaxSends == 2

MaxCycles == 4

----------------------------------------------------------------------------
(* Program constants *)

IntervalMs == 8000

AdvanceDelayMs == 400

FadeEndDelayMs == 100

ReplyDelaySpreadMs == 1000

\* JavaScript's undefined where a text is expected: a value different from
\* every text the model draws.
Undefined == <<"<undefined>">>

\* JavaScript's NaN where a number is expected.
NaN == -1

defaultTips ==
    << [text |-> <<"Hi! I'm your AI assistant. How can I help you today? :rocket:">>],
       [text |-> <<"Did you know? You can ask me about coding, writing, or anything else!">>],
       [text |-> <<"Pro tip: I can help you brainstorm ideas and solve problems :bulb:">>],
       [text |-> <<"I'm here to help! Just ask me anything :speech:">>] >>

defaultResponses ==
    << <<"That's a great question! Let me help you with that.">>,
       <<"Interesting! I'd be happy to explore that further with you.">>,
       <<"Great thinking! Here's what I know about that topic.">>,
       <<"Thanks for asking! I'll do my best to help.">>,
       <<"I love your curiosity! Let me share what I know.">> >>

----------------------------------------------------------------------------
(* Inputs: what the user can type and what the host can configure *)

IsSpace(c) == c = " "

\* what the user may have typed into the input field: nothing, whitespace
\* only, a word, a padded word, two words
Inputs == { << >>, <<" ">>, <<"a">>, <<" ", "a", " ">>, <<"a", " ", "b">> }

NoConfig == [k \in {} |-> << >>]

NameFields == { NoConfig, "name" :> << >>, "name" :> <<"Zed">> }

WelcomeFields == { NoConfig, "welcomeMessage" :> << >>,
                   "welcomeMessage" :> <<"Hello">> }

ResponsesFields == { NoConfig, "responses" :> << >>,
                     "responses" :> << <<"Only reply">> >> }

TipsFields == { NoConfig, "tips" :> << >>,
                "tips" :> << [text |-> <<"t1">>] >>,
                "tips" :> << [text |-> <<"t1">>], [text |-> <<"t2">>],
                             [text |-> <<"t3">>] >> }

OnlyReply == "responses" :> << <<"Only reply">> >>

NoTips == "tips" :> << >>

\* the configurations of the chat specifications: every name and welcome
\* message with a one-reply pool, every pool with the defaults
ChatConfigs ==
    { n @@ w @@ OnlyReply : n \in NameFields, w \in WelcomeFields }
        \cup ResponsesFields \cup {NoTips}

\* the configurations of the rotation specification: every tip list
RotationConfigs == TipsFields

\* the configurations of the specification of the whole widget
Configs == { OnlyReply @@ t : t \in TipsFields \ {NoTips} } \cup {NoTips}

----------------------------------------------------------------------------
(* Pure helpers *)

RECURSIVE TrimStart(_)
TrimStart(s) ==
    IF s # << >> /\ IsSpace(Head(s)) THEN TrimStart(Tail(s)) ELSE s

RECURSIVE TrimEnd(_)
TrimEnd(s) ==
    IF s # << >> /\ IsSpace(s[Len(s)])
    THEN TrimEnd(SubSeq(s, 1, Len(s) - 1))
    ELSE s

\* String.prototype.trim
Trim(s) == TrimEnd(TrimStart(s))

\* config?.f || d for a string field: an absent or empty string is falsy
StringOr(f, d) ==
    IF f \in DOMAIN config /\ config[f] # << >> THEN config[f] ELSE d

\* config?.f || d for an array field: every array, also [], is truthy
ArrayOr(f, d) == IF f \in DOMAIN config THEN config[f] ELSE d

tips == ArrayOr("tips", defaultTips)

responses == ArrayOr("responses", defaultResponses)

name == StringOr("name", <<"AI Assistant">>)

welcomeMessage ==
    StringOr("welcomeMessage",
             <<"Hi! I'm ">> \o name \o <<" :wave: Ask me anything!">>)

\* arr[i] with a 0-based index: undefined outside the array
Index(arr, i) == IF i + 1 \in DOMAIN arr THEN arr[i + 1] ELSE Undefined

\* a % b of JavaScript for a >= 0
JsMod(a, b) == IF b = 0 \/ a = NaN THEN NaN ELSE a % b

\* Math.floor(Math.random() * n): Math.random() is in [0, 1)
RandomIndexes(n) == IF n = 0 THEN {0} ELSE 0..(n - 1)

AssistantMessage(r, c, t) == [role |-> r, content |-> c, timestamp |-> t]

\* a setState call: React drops the update of a component no longer mounted
SetState(old, new) == IF phase = "mounted" THEN new ELSE old

----------------------------------------------------------------------------
(* Effects *)

\* the welcome effect, run after a render in which chatMessages.length or
\* welcomeMessage differs from the previous render
WelcomeEffectUnguarded(msgs, t) ==
    << AssistantMessage("assistant", welcomeMessage, t) >>

WelcomeEffect(msgs, t) ==
    IF Len(msgs) = 0
    THEN << AssistantMessage("assistant", welcomeMessage, t) >>
    ELSE msgs

\* the tip effect's body, for the showBubble / chatMode of its render
TipEffectRun(sb, cm, n) == IF ~sb \/ cm THEN n ELSE n + 1

\* the tip effect's cleanup: clears the interval its run created, if any
TipEffectCleanupMissing(sb, cm, n) == n

TipEffectCleanup(sb, cm, n) == IF ~sb \/ cm THEN n ELSE n - 1

\* a re-render from (sb, cm) to (sb2, cm2): the tip effect is cleaned up and
\* run again when a dependency changed
TipEffectRerun(sb, cm, sb2, cm2, n) ==
    IF <<sb, cm>> = <<sb2, cm2>> THEN n
    ELSE TipEffectRun(sb2, cm2, TipEffectCleanup(sb, cm, n))

\* the tips view reads tips[currentTip].icon and .text while the bubble shows
RenderOk ==
    chatMode \/ ~showBubble \/ (currentTip + 1) \in DOMAIN tips

----------------------------------------------------------------------------
(* The state after construction *)

InitWith(cfgs) ==
    /\ config \in cfgs
    /\ phase = "constructed"
    /\ currentTip = 0
    /\ isAnimating = FALSE
    /\ showBubble = TRUE
    /\ chatMode = FALSE
    /\ chatMessages = << >>
    /\ chatInput = << >>
    /\ isTyping = FALSE
    /\ intervals = 0
    /\ advanceTimers = 0
    /\ fadeTimers = 0
    /\ replyTimers = {}
    /\ now = 0
    /\ event = "none"
    /\ sends = 0
    /\ cycles = 0
    /\ chatOpened = FALSE

Init == InitWith(Configs)

InitChat == InitWith(ChatConfigs)

InitRotation == InitWith(RotationConfigs)


----------------------------------------------------------------------------
(* First render and the effects of the mount *)

\* The first render succeeds: the welcome effect and the tip effect run.
\* The welcome effect changes chatMessages.length, so it runs once more
\* after the re-render.
Mount ==
    /\ phase = "constructed"
    /\ RenderOk
    /\ phase' = "mounted"
    /\ chatMessages' = WelcomeEffect(WelcomeEffect(chatMessages, now), now + 1)
    /\ now' = now + 1
    /\ intervals' = TipEffectRun(showBubble, chatMode, intervals)
    /\ event' = "mount"
    /\ UNCHANGED <<config, currentTip, isAnimating, showBubble, chatMode,
                   chatInput, isTyping, advanceTimers, fadeTimers,
                   replyTimers, sends, cycles, chatOpened>>

\* The first render throws (tips[currentTip] is undefined): React discards
\* the component, no effect runs.
RenderThrows ==
    /\ phase = "constructed"
    /\ ~RenderOk
    /\ phase' = "crashed"
    /\ event' = "crash"
    /\ UNCHANGED <<config, currentTip, isAnimating, showBubble, chatMode,
                   chatMessages, chatInput, isTyping, intervals,
                   advanceTimers, fadeTimers, replyTimers, now, sends,
                   cycles, chatOpened>>

\* Unmount: the cleanup of the tip effect runs; nothing else is cancelled.
Unmount ==
    /\ phase = "mounted"
    /\ phase' = "unmounted"
    /\ intervals' = TipEffectCleanup(showBubble, chatMode, intervals)
    /\ event' = "unmount"
    /\ UNCHANGED <<config, currentTip, isAnimating, showBubble, chatMode,
                   chatMessages, chatInput, isTyping, advanceTimers,
                   fadeTimers, replyTimers, now, sends, cycles, chatOpened>>

----------------------------------------------------------------------------
(* Chat view: input, send, reply *)

\* onChange of the input field (rendered in the chat view only)
ChangeInput(s) ==
    /\ phase = "mounted"
    /\ chatMode
    /\ s # chatInput
    /\ chatInput' = s
    /\ event' = "change"
    /\ UNCHANGED <<config, phase, currentTip, isAnimating, showBubble,
                   chatMode, chatMessages, isTyping, intervals,
                   advanceTimers, fadeTimers, replyTimers, now, sends,
                   cycles, chatOpened>>

\* if (!chatInput.trim()) return: the empty string is the falsy one
SendIgnoredNoTrim(input) == input = << >>

SendIgnored(input) == Trim(input) = << >>

\* the userMessage object built by handleSendMessage
UserMessageUntrimmed(input, t) == AssistantMessage("user", input, t)

UserMessage(input, t) == AssistantMessage("user", Trim(input), t)

\* setTimeout of the reply callback: one more pending timeout, with a new id
ScheduleReplyCancelling(timers, id) == {id}

ScheduleReply(timers, id) == timers \cup {id}

\* handleSendMessage: what it does to the chat state.  The new message
\* changes chatMessages.length, so the welcome effect runs after the render.
HandleSendMessage ==
    IF SendIgnored(chatInput)
    THEN UNCHANGED <<chatMessages, chatInput, isTyping, replyTimers, now,
                     sends>>
    ELSE /\ chatMessages' =
              WelcomeEffect(Append(chatMessages, UserMessage(chatInput, now)),
                            now)
         /\ chatInput' = << >>
         /\ isTyping' = TRUE
         /\ replyTimers' = ScheduleReply(replyTimers, sends + 1)
         /\ now' = now + 1
         /\ sends' = sends + 1

\* onKeyDown of the input field with the Enter key
KeyDownEnter ==
    /\ phase = "mounted"
    /\ chatMode
    /\ SendIgnored(chatInput) \/ sends < MaxSends
    /\ HandleSendMessage
    /\ event' = "enter"
    /\ UNCHANGED <<config, phase, currentTip, isAnimating, showBubble,
                   chatMode, intervals, advanceTimers, fadeTimers, cycles,
                   chatOpened>>

\* onClick of the send button, which is disabled while the trimmed input
\* is empty
ClickSend ==
    /\ phase = "mounted"
    /\ chatMode
    /\ Trim(chatInput) # << >>
    /\ sends < MaxSends
    /\ HandleSendMessage
    /\ event' = "click"
    /\ UNCHANGED <<config, phase, currentTip, isAnimating, showBubble,
                   chatMode, intervals, advanceTimers, fadeTimers, cycles,
                   chatOpened>>

\* The reply timeout t may fire before an older one only because the delay
\* has a random part.
ReplyMayFire(t) ==
    /\ t \in replyTimers
    /\ \A u \in replyTimers : u < t => ReplyDelaySpreadMs > 0

\* what the reply callback does to the chat state, for the random index i
ReplyCallbackKeepsTyping(i) ==
    /\ chatMessages' =
         SetState(chatMessages,
                  WelcomeEffect(
                      Append(chatMessages,
                             AssistantMessage("assistant",
                                              Index(responses, i), now)),
                      now))
    /\ isTyping' = isTyping
    /\ now' = SetState(now, now + 1)

ReplyCallbackPrepending(i) ==
    /\ chatMessages' =
         SetState(chatMessages,
                  WelcomeEffect(
                      << AssistantMessage("assistant", Index(responses, i),
                                          now) >> \o chatMessages,
                      now))
    /\ isTyping' = SetState(isTyping, FALSE)
    /\ now' = SetState(now, now + 1)

ReplyCallback(i) ==
    /\ chatMessages' =
         SetState(chatMessages,
                  WelcomeEffect(
                      Append(chatMessages,
                             AssistantMessage("assistant",
                                              Index(responses, i), now)),
                      now))
    /\ isTyping' = SetState(isTyping, FALSE)
    /\ now' = SetState(now, now + 1)

\* the callback of the reply timeout t; it runs whether or not the
\* component is still mounted
ReplyTimeout(t) ==
    /\ ReplyMayFire(t)
    /\ replyTimers' = replyTimers \ {t}
    /\ \E i \in RandomIndexes(Len(responses)) : ReplyCallback(i)
    /\ event' = "reply"
    /\ UNCHANGED <<config, phase, currentTip, isAnimating, showBubble,
                   chatMode, chatInput, intervals, advanceTimers,
                   fadeTimers, sends, cycles, chatOpened>>

----------------------------------------------------------------------------
(* Switching between the tips view and the chat view *)

\* openChat: the Start Chat button of the tips view
OpenChatKeepsBubble ==
    /\ phase = "mounted"
    /\ ~chatMode
    /\ chatMode' = TRUE
    /\ showBubble' = showBubble
    /\ intervals' =
         TipEffectRerun(showBubble, chatMode, showBubble, TRUE, intervals)
    /\ event' = "open"
    /\ chatOpened' = TRUE
    /\ UNCHANGED <<config, phase, currentTip, isAnimating, chatMessages,
                   chatInput, isTyping, advanceTimers, fadeTimers,
                   replyTimers, now, sends, cycles>>

OpenChat ==
    /\ phase = "mounted"
    /\ ~chatMode
    /\ chatMode' = TRUE
    /\ showBubble' = FALSE
    /\ intervals' =
         TipEffectRerun(showBubble, chatMode, FALSE, TRUE, intervals)
    /\ event' = "open"
    /\ chatOpened' = TRUE
    /\ UNCHANGED <<config, phase, currentTip, isAnimating, chatMessages,
                   chatInput, isTyping, advanceTimers, fadeTimers,
                   replyTimers, now, sends, cycles>>

\* the close button of the chat header
CloseChatResetting ==
    /\ phase = "mounted"
    /\ chatMode
    /\ chatMode' = FALSE
    /\ showBubble' = TRUE
    /\ chatMessages' = WelcomeEffect(<< >>, now)
    /\ intervals' =
         TipEffectRerun(showBubble, chatMode, TRUE, FALSE, intervals)
    /\ event' = "close"
    /\ UNCHANGED <<config, phase, currentTip, isAnimating, chatInput,
                   isTyping, advanceTimers, fadeTimers, replyTimers, now,
                   sends, cycles, chatOpened>>

CloseChat ==
    /\ phase = "mounted"
    /\ chatMode
    /\ chatMode' = FALSE
    /\ showBubble' = TRUE
    /\ intervals' =
         TipEffectRerun(showBubble, chatMode, TRUE, FALSE, intervals)
    /\ event' = "close"
    /\ UNCHANGED <<config, phase, currentTip, isAnimating, chatMessages,
                   chatInput, isTyping, advanceTimers, fadeTimers,
                   replyTimers, now, sends, cycles, chatOpened>>

----------------------------------------------------------------------------
(* Tip rotation *)

\* A tick of an interval comes IntervalMs after the interval was set or
\* last ticked; the timeouts nested in the previous tick are due
\* AdvanceDelayMs + FadeEndDelayMs after it, and a timer never fires before
\* one that is due earlier.
TickMayFire ==
    \/ IntervalMs <= AdvanceDelayMs + FadeEndDelayMs
    \/ advanceTimers = 0 /\ fadeTimers = 0

\* the interval callback
IntervalTick ==
    /\ intervals > 0
    /\ TickMayFire
    /\ cycles + advanceTimers + fadeTimers < MaxCycles
    /\ isAnimating' = SetState(isAnimating, TRUE)
    /\ advanceTimers' = advanceTimers + 1
    /\ event' = "tick"
    /\ UNCHANGED <<config, phase, currentTip, showBubble, chatMode,
                   chatMessages, chatInput, isTyping, intervals, fadeTimers,
                   replyTimers, now, sends, cycles, chatOpened>>

\* the updater given to setCurrentTip
NextTipSkipping(prev) == JsMod(prev + 2, Len(tips))

NextTipNoWrap(prev) == prev + 1

NextTip(prev) == JsMod(prev + 1, Len(tips))

\* the callback of the 400 ms timeout
AdvanceTimeout ==
    /\ advanceTimers > 0
    /\ advanceTimers' = advanceTimers - 1
    /\ currentTip' = SetState(currentTip, NextTip(currentTip))
    /\ fadeTimers' = fadeTimers + 1
    /\ event' = "advance"
    /\ UNCHANGED <<config, phase, isAnimating, showBubble, chatMode,
                   chatMessages, chatInput, isTyping, intervals,
                   replyTimers, now, sends, cycles, chatOpened>>

\* the callback of the 100 ms timeout
FadeEndTimeout ==
    /\ fadeTimers > 0
    /\ fadeTimers' = fadeTimers - 1
    /\ isAnimating' = SetState(isAnimating, FALSE)
    /\ cycles' = cycles + 1
    /\ event' = "fadeEnd"
    /\ UNCHANGED <<config, phase, currentTip, showBubble, chatMode,
                   chatMessages, chatInput, isTyping, intervals,
                   advanceTimers, replyTimers, now, sends, chatOpened>>

----------------------------------------------------------------------------
(* Specifications *)

ReplyTimers == \E t \in 1..MaxSends + 1 : ReplyTimeout(t)

Next ==
    \/ Mount
    \/ RenderThrows
    \/ Unmount
    \/ \E s \in Inputs : ChangeInput(s)
    \/ KeyDownEnter
    \/ ClickSend
    \/ ReplyTimers
    \/ OpenChat
    \/ CloseChat
    \/ IntervalTick
    \/ AdvanceTimeout
    \/ FadeEndTimeout

\* the whole widget
Spec == Init /\ [][Next]_vars

\* the behaviours in which the rotation interval never ticks
NextChat ==
    \/ Mount
    \/ RenderThrows
    \/ Unmount
    \/ \E s \in Inputs : ChangeInput(s)
    \/ KeyDownEnter
    \/ ClickSend
    \/ ReplyTimers
    \/ OpenChat
    \/ CloseChat

SpecChat == InitChat /\ [][NextChat]_vars

\* the behaviours in which nothing is sent
NextRotation ==
    \/ Mount
    \/ RenderThrows
    \/ Unmount
    \/ OpenChat
    \/ CloseChat
    \/ IntervalTick
    \/ AdvanceTimeout
    \/ FadeEndTimeout

SpecRotation == InitRotation /\ [][NextRotation]_vars


\* the chat behaviours of a widget that stays mounted, with every pending
\* reply timeout eventually run by the event loop
NextLive ==
    \/ Mount
    \/ RenderThrows
    \/ \E s \in Inputs : ChangeInput(s)
    \/ KeyDownEnter
    \/ ClickSend
    \/ ReplyTimers
    \/ OpenChat
    \/ CloseChat

LiveChat ==
    /\ InitChat
    /\ [][NextLive]_vars
    /\ \A t \in 1..MaxSends + 1 : WF_vars(ReplyTimeout(t))

\* the rotation behaviours of a widget that stays mounted, with the two
\* nested timeouts of a tick eventually run by the event loop
NextRotationLive ==
    \/ Mount
    \/ RenderThrows
    \/ OpenChat
    \/ CloseChat
    \/ IntervalTick
    \/ AdvanceTimeout
    \/ FadeEndTimeout

LiveRotation ==
    /\ InitRotation
    /\ [][NextRotationLive]_vars
    /\ WF_vars(AdvanceTimeout)
    /\ WF_vars(FadeEndTimeout)

----------------------------------------------------------------------------
(* Vocabulary of the properties *)

Range(seq) == { seq[i] : i \in DOMAIN seq }

IsPrefix(a, b) == Len(a) <= Len(b) /\ SubSeq(b, 1, Len(a)) = a

CountRole(r) == Cardinality({ i \in DOMAIN chatMessages :
                              chatMessages[i].role = r })

IsSend(e) == e \in {"enter", "click"}

\* the welcome text as the configuration states it: the configured welcome
\* message when one is configured (the empty string too), else the default
\* template with the display name
ConfiguredWelcome ==
    IF "welcomeMessage" \in DOMAIN config THEN config["welcomeMessage"]
    ELSE <<"Hi! I'm ">> \o name \o <<" :wave: Ask me anything!">>

----------------------------------------------------------------------------
(* Properties *)

\* C1: right after the mount the message sequence is exactly one assistant
\* message whose content is the configured welcome text, also when that text
\* is the empty string, else the default template.
C1_WelcomeAsConfigured ==
    event = "mount" =>
        /\ Len(chatMessages) = 1
        /\ chatMessages[1].role = "assistant"
        /\ chatMessages[1].content = ConfiguredWelcome

\* C2: a send (Enter or click) while the trimmed input is empty changes
\* neither the messages, the input, the typing flag nor the reply timers.
C2_EmptySendIsNoOp ==
    [][ (IsSend(event') /\ Trim(chatInput) = << >>)
          => UNCHANGED <<chatMessages, chatInput, isTyping, replyTimers>>
      ]_vars

C2_Witness ==
    /\ event = "enter"
    /\ chatInput = <<" ">>
    /\ Len(chatMessages) = 1
    /\ ~isTyping

\* C3: a send while the trimmed input is non-empty appends exactly one user
\* message holding the trimmed text, empties the input, sets the typing
\* flag and schedules exactly one reply timer, all in the same step.
C3_SendAppendsAndSchedules ==
    [][ (IsSend(event') /\ Trim(chatInput) # << >>)
          => /\ Len(chatMessages') = Len(chatMessages) + 1
             /\ IsPrefix(chatMessages, chatMessages')
             /\ chatMessages'[Len(chatMessages')].role = "user"
             /\ chatMessages'[Len(chatMessages')].content = Trim(chatInput)
             /\ chatInput' = << >>
             /\ isTyping' = TRUE
             /\ replyTimers \subseteq replyTimers'
             /\ Cardinality(replyTimers') = Cardinality(replyTimers) + 1
      ]_vars

C3_Witness ==
    /\ event = "click"
    /\ chatInput = << >>
    /\ isTyping
    /\ chatMessages[Len(chatMessages)] =
         AssistantMessage("user", <<"a">>, now - 1)
    /\ Cardinality(replyTimers) = 2

\* C4: with the widget mounted and under fairness of the reply timers, the
\* widget ends with no pending reply timer, as many user messages as
\* successful sends and one assistant message more.
Quiescent ==
    phase = "mounted" =>
        /\ replyTimers = {}
        /\ CountRole("user") = sends
        /\ CountRole("assistant") = sends + 1

C4_EveryReplyLands == <>[]Quiescent

C4_Witness ==
    /\ phase = "mounted"
    /\ replyTimers = {}
    /\ sends = 2
    /\ Len(chatMessages) = 5
    /\ chatMessages[2].role = "user"
    /\ chatMessages[3].role = "user"
    /\ chatMessages[4].role = "assistant"
    /\ chatMessages[5].role = "assistant"

\* C5: every assistant message after the welcome message has a content that
\* is a member of the response pool in use, whatever pool is configured.
C5_RepliesFromPool ==
    \A i \in DOMAIN chatMessages :
        (i > 1 /\ chatMessages[i].role = "assistant")
            => chatMessages[i].content \in Range(responses)

\* C6: with the chat view never opened, after N completed rotation cycles
\* the tip index is N mod tips.length.
C6_TipIndexIsCyclesModLength ==
    ( /\ phase = "mounted"
      /\ ~chatOpened
      /\ advanceTimers = 0
      /\ fadeTimers = 0
      /\ Len(tips) > 0 )
        => currentTip = cycles % Len(tips)

C6_Witness ==
    /\ phase = "mounted"
    /\ ~chatOpened
    /\ event = "fadeEnd"
    /\ Len(tips) = 3
    /\ cycles = 4
    /\ currentTip = 1

\* C7: open sets chat mode and hides the bubble, close does the reverse, and
\* both leave the messages, the tip index, the input, the typing flag and
\* the reply timers as they were.
C7_OpenCloseFrame ==
    [][ /\ event' = "open" =>
             /\ chatMode' /\ ~showBubble'
             /\ UNCHANGED <<chatMessages, currentTip, chatInput, isTyping,
                            replyTimers>>
        /\ event' = "close" =>
             /\ ~chatMode' /\ showBubble'
             /\ UNCHANGED <<chatMessages, currentTip, chatInput, isTyping,
                            replyTimers>>
      ]_vars

C7_Witness ==
    /\ event = "open"
    /\ chatMode /\ ~showBubble
    /\ Len(chatMessages) >= 4
    /\ currentTip > 0
    /\ replyTimers # {}

\* C8: every transition keeps the message sequence as a prefix of the next
\* one and appends at most one message; once the welcome message is there,
\* only a send or a reply appends.
C8_AppendOnly ==
    [][ /\ IsPrefix(chatMessages, chatMessages')
        /\ Len(chatMessages') <= Len(chatMessages) + 1
        /\ (Len(chatMessages) > 0 /\ Len(chatMessages') > Len(chatMessages))
             => (IsSend(event') \/ event' = "reply")
      ]_vars

C8_Witness ==
    /\ Len(chatMessages) = 5
    /\ chatMessages[1].content = welcomeMessage
    /\ CountRole("assistant") = 3
    /\ cycles >= 1
    /\ event = "close"

\* C9: while the chat view is active or the bubble is hidden, no tip-rotation
\* timer of any phase is pending and no rotation callback has just run (so
\* neither the tip index nor the animating flag changes until the close).
C9_NoRotationTimerInChat ==
    (chatMode \/ ~showBubble)
        => /\ intervals = 0 /\ advanceTimers = 0 /\ fadeTimers = 0
           /\ event \notin {"tick", "advance", "fadeEnd"}

\* C10: after the unmount no timer of the widget is pending, and no timer
\* callback runs any more.
C10_NoTimerAfterUnmount ==
    phase = "unmounted"
        => /\ intervals = 0
           /\ advanceTimers = 0
           /\ fadeTimers = 0
           /\ replyTimers = {}
           /\ event = "unmount"


\* C11 as stated: while the reply of a send is pending the typing indicator
\* is true, whatever other sends are in flight.
C11_TypingUntilOwnReply ==
    phase = "mounted" => (replyTimers # {} => isTyping)

\* C11 amended: a send sets the typing indicator, it stays true until the
\* next reply is appended (of that send or of an earlier one still in
\* flight), and every appended reply clears it.
C11_TypingUntilNextReply ==
    [][ /\ (IsSend(event') /\ Trim(chatInput) # << >>) => isTyping'
        /\ (event' = "reply" /\ phase = "mounted") => ~isTyping'
        /\ (isTyping /\ ~isTyping') => event' = "reply"
      ]_vars

C11_Witness ==
    /\ phase = "mounted"
    /\ event = "reply"
    /\ ~isTyping
    /\ replyTimers # {}


\* C12: once the widget has rendered, the tip index is within
\* 0 .. tips.length - 1 for every tip list, the empty one too, so the
\* render's read of tips[currentTip] is defined and does not throw.
C12_TipIndexInRange ==
    phase # "constructed" =>
        /\ currentTip \in 0..(Len(tips) - 1)
        /\ phase # "crashed"


\* C13: a tick sets the animating flag and leaves the index; the index
\* changes only while the flag is set, only in the 400 ms callback of the
\* one tick in progress, and by exactly one modulo tips.length; the flag is
\* cleared only by the 100 ms callback that follows; and an animating widget
\* eventually stops animating.
C13_ThreePhasesInOrder ==
    /\ [][ /\ event' = "tick" =>
                /\ isAnimating'
                /\ currentTip' = currentTip
                /\ advanceTimers' = 1 /\ fadeTimers' = 0
           /\ event' = "advance" =>
                /\ isAnimating /\ isAnimating'
                /\ advanceTimers = 1 /\ advanceTimers' = 0
                /\ fadeTimers' = 1
                /\ currentTip' = (currentTip + 1) % Len(tips)
           /\ event' = "fadeEnd" =>
                /\ isAnimating /\ ~isAnimating'
                /\ currentTip' = currentTip
                /\ advanceTimers' = 0 /\ fadeTimers' = 0
           /\ currentTip' # currentTip => event' = "advance"
           /\ isAnimating' # isAnimating => event' \in {"tick", "fadeEnd"}
         ]_vars
    /\ (isAnimating ~> ~isAnimating)

C13_Witness ==
    /\ phase = "mounted"
    /\ event = "fadeEnd"
    /\ ~isAnimating
    /\ chatMode
    /\ currentTip = 2
    /\ cycles = 2


NumRole(msgs, r) == Cardinality({ i \in DOMAIN msgs : msgs[i].role = r })

\* C14: the k-th successful send appends the k-th user message at the end;
\* a reply is appended at the end, after the user message of the send that
\* scheduled it; no earlier entry is displaced.  (A reply may land after the
\* user messages of later sends: C14_Witness.)
C14_AppendedInEventOrder ==
    [][ /\ IsPrefix(chatMessages, chatMessages')
        /\ sends' # sends =>
             /\ sends' = sends + 1
             /\ Len(chatMessages') = Len(chatMessages) + 1
             /\ chatMessages'[Len(chatMessages')].role = "user"
             /\ NumRole(chatMessages', "user") = sends'
        /\ (event' = "reply" /\ phase = "mounted") =>
             /\ Len(chatMessages') = Len(chatMessages) + 1
             /\ chatMessages'[Len(chatMessages')].role = "assistant"
             /\ \E t \in replyTimers :
                  /\ replyTimers' = replyTimers \ {t}
                  /\ NumRole(chatMessages, "user") >= t
      ]_vars

C14_Witness ==
    /\ phase = "mounted"
    /\ event = "reply"
    /\ replyTimers = {2}
    /\ Len(chatMessages) = 4
    /\ chatMessages[2].role = "user"
    /\ chatMessages[3].role = "user"
    /\ chatMessages[4].role = "assistant"
    /\ chatMessages[2].timestamp < chatMessages[3].timestamp
    /\ chatMessages[3].timestamp < chatMessages[4].timestamp


\* C15: the bubble is shown exactly when the chat view is not.
C15_BubbleIffNotChat == showBubble = ~chatMode

C15_Witness ==
    /\ phase = "mounted"
    /\ chatMode /\ ~showBubble
    /\ event = "fadeEnd"
    /\ sends > 0

\* C16: while mounted, assistant messages = 1 + user messages - pending
\* reply timers; the sequence starts with the welcome message and no prefix
\* holds more replies than user messages.
C16_ReplyAccounting ==
    phase = "mounted" =>
        /\ CountRole("assistant")
             = 1 + CountRole("user") - Cardinality(replyTimers)
        /\ CountRole("assistant") - 1 <= CountRole("user")
        /\ \A k \in 1..Len(chatMessages) :
             /\ SubSeq(chatMessages, 1, k)[1].role = "assistant"
             /\ SubSeq(chatMessages, 1, k)[1].content = welcomeMessage
             /\ NumRole(SubSeq(chatMessages, 1, k), "assistant") - 1
                  <= NumRole(SubSeq(chatMessages, 1, k), "user")

C16_Witness ==
    /\ phase = "mounted"
    /\ CountRole("user") = 2
    /\ CountRole("assistant") = 2
    /\ Cardinality(replyTimers) = 1
    /\ chatMessages[Len(chatMessages)].role = "user"

\* C17: while mounted, a shown typing indicator means a reply timer is
\* pending.
C17_TypingImpliesPendingReply ==
    (phase = "mounted" /\ isTyping) => replyTimers # {}

C17_Witness ==
    /\ phase = "mounted"
    /\ isTyping
    /\ replyTimers = {2}
    /\ CountRole("assistant") = 2

\* C18: while mounted, exactly one rotation interval is active when the
\* bubble is visible and the chat view is off, and none otherwise; a close
\* leaves exactly one interval, set by that close.
C18_OneIntervalIffTipsView ==
    phase = "mounted" =>
        /\ intervals = (IF showBubble /\ ~chatMode THEN 1 ELSE 0)
        /\ event = "close" => intervals = 1

C18_Witness ==
    /\ phase = "mounted"
    /\ event = "close"
    /\ intervals = 1
    /\ advanceTimers = 1
    /\ cycles >= 1

=============================================================================
